---------------------------- MODULE Spec2Model ----------------------------
(***************************************************************************)
(* Route Safety Commander (src/app.py): the hourly hazard evaluator        *)
(* (analyze_hour and its helpers), the alert filter (fetch_active_alerts)  *)
(* and the script's run from the connection check to the dashboard.        *)
(*                                                                         *)
(* Python values are tagged records: Missing is a key that a dict does not *)
(* hold, None is null, I(n) an int, S(s) a str, D(x) a dict {'value': x}.  *)
(* Emoji prefixes of the tags and status lights are left out of the        *)
(* strings; the light's colour names the status.                           *)
(***************************************************************************)
EXTENDS Integers, Sequences, FiniteSets, TLC

VARIABLES
    \* --- one call of analyze_hour ---
    row,                  \* the forecast period handed to analyze_hour
    location_name,        \* its waypoint
    trip_direction,       \* "Out" or "Ret"
    overall_direction,    \* the route's direction
    result,               \* what the call returned (or that it raised)
    epc,                  \* "call" before the call, "returned" after
    \* --- one run of the script ---
    route_name,           \* st.selectbox("Select Destination")
    hourly_feed,          \* the forecast service's answer per waypoint
    alerts_feed,          \* the alert service's answer per waypoint
    pc,                   \* where the script is
    ref_data,             \* line 285
    unique_dates,         \* line 292
    selected_date_str,    \* line 308
    idx,                  \* position of the loop of line 321 in LOCATIONS
    daily_risks,          \* line 315
    processed_data_out,   \* line 316 (processed_data_ret holds the same rows)
    summary_hazards,      \* line 318
    official_alerts_found,\* line 319
    overall_risk,         \* line 389
    shown                 \* what st.error/success/warning/markdown/info rendered

evalVars == <<row, location_name, trip_direction, overall_direction, result, epc>>
runVars == <<route_name, hourly_feed, alerts_feed, pc, ref_data, unique_dates,
             selected_date_str, idx, daily_risks, processed_data_out,
             summary_hazards, official_alerts_found, overall_risk, shown>>
vars == <<row, location_name, trip_direction, overall_direction, result, epc,
          route_name, hourly_feed, alerts_feed, pc, ref_data, unique_dates,
          selected_date_str, idx, daily_risks, processed_data_out,
          summary_hazards, official_alerts_found, overall_risk, shown>>

---------------------------------------------------------------------------
(* Python values *)

Missing == [k |-> "missing"]
None == [k |-> "none"]
I(n) == [k |-> "int", i |-> n]
S(s) == [k |-> "str", s |-> s]
D(x) == [k |-> "dict", value |-> x]
B(b) == [k |-> "bool", b |-> b]

\* dict.get(key, default)
PyGet(d, key, default) == IF d[key] = Missing THEN default ELSE d[key]

Max2(a, b) == IF a >= b THEN a ELSE b

RECURSIVE SeqMax(_)
SeqMax(s) == IF Len(s) = 1 THEN s[1] ELSE Max2(s[1], SeqMax(Tail(s)))

---------------------------------------------------------------------------
(* Strings *)

Ch(s, i) == SubSeq(s, i, i)

\* Python's `pat in s`
Contains(s, pat) ==
    \E i \in 1..(Len(s) - Len(pat) + 1) : SubSeq(s, i, i + Len(pat) - 1) = pat

UpperLetters == "ABCDEFGHIJKLMNOPQRSTUVWXYZ"
LowerLetters == "abcdefghijklmnopqrstuvwxyz"

LetterIndex(c, alphabet) ==
    IF \E i \in 1..Len(alphabet) : Ch(alphabet, i) = c
    THEN CHOOSE i \in 1..Len(alphabet) : Ch(alphabet, i) = c
    ELSE 0

\* the letter tables of str.lower() and str.upper()
ToLower ==
    [c \in {Ch(UpperLetters, i) : i \in 1..Len(UpperLetters)} |->
        Ch(LowerLetters, LetterIndex(c, UpperLetters))]
ToUpper ==
    [c \in {Ch(LowerLetters, i) : i \in 1..Len(LowerLetters)} |->
        Ch(UpperLetters, LetterIndex(c, LowerLetters))]

LowerChar(c) == IF c \in DOMAIN ToLower THEN ToLower[c] ELSE c

UpperChar(c) == IF c \in DOMAIN ToUpper THEN ToUpper[c] ELSE c

RECURSIVE Lower(_)
Lower(s) == IF Len(s) = 0 THEN "" ELSE LowerChar(Ch(s, 1)) \o Lower(SubSeq(s, 2, Len(s)))

RECURSIVE Upper(_)
Upper(s) == IF Len(s) = 0 THEN "" ELSE UpperChar(Ch(s, 1)) \o Upper(SubSeq(s, 2, Len(s)))

Digits == "0123456789"
DigitValue == [c \in {Ch(Digits, i) : i \in 1..Len(Digits)} |-> LetterIndex(c, Digits) - 1]
IsDigit(c) == c \in DOMAIN DigitValue
DigitVal(c) == DigitValue[c]

\* str(val)
PyStr(val) ==
    CASE val.k = "str" -> val.s
      [] val.k = "int" -> ToString(val.i)
      [] val.k = "none" -> "None"
      [] OTHER -> "{}"

\* the end of the run of digits that starts at i
RECURSIVE DigitRunEnd(_, _)
DigitRunEnd(s, i) ==
    IF i < Len(s) /\ IsDigit(Ch(s, i + 1)) THEN DigitRunEnd(s, i + 1) ELSE i

RECURSIVE ParseDigits(_)
ParseDigits(s) ==
    IF Len(s) = 0 THEN 0
    ELSE 10 * ParseDigits(SubSeq(s, 1, Len(s) - 1)) + DigitVal(Ch(s, Len(s)))

\* re.findall(r'\d+', s): the first match, "" when there is none
FirstNumber(s) ==
    IF \E i \in 1..Len(s) : IsDigit(Ch(s, i))
    THEN LET a == CHOOSE i \in 1..Len(s) :
                     /\ IsDigit(Ch(s, i))
                     /\ \A j \in 1..(i - 1) : ~IsDigit(Ch(s, j))
         IN SubSeq(s, a, DigitRunEnd(s, a))
    ELSE ""

get_int(val) ==
    IF val = None THEN 0
    ELSE LET v == IF val.k = "dict" THEN val.value ELSE val
             nums == FirstNumber(PyStr(v))
         IN IF nums # "" THEN ParseDigits(nums) ELSE 0

---------------------------------------------------------------------------
(* Timestamps: dateutil's parser.parse on the service's ISO-8601 strings   *)
(* ("2024-01-15T07:00:00-08:00"), and strftime('%A, %b %d')                *)

AllDigits(s) == \A i \in 1..Len(s) : IsDigit(Ch(s, i))

\* parser.parse(s): [ok |-> FALSE] stands for the exception it raises
ParseTime(val) ==
    IF val.k # "str" THEN [ok |-> FALSE]
    ELSE LET s == val.s IN
         IF /\ Len(s) >= 13
            /\ AllDigits(SubSeq(s, 1, 4)) /\ Ch(s, 5) = "-"
            /\ AllDigits(SubSeq(s, 6, 7)) /\ Ch(s, 8) = "-"
            /\ AllDigits(SubSeq(s, 9, 10)) /\ Ch(s, 11) = "T"
            /\ AllDigits(SubSeq(s, 12, 13))
            /\ ParseDigits(SubSeq(s, 6, 7)) \in 1..12
            /\ ParseDigits(SubSeq(s, 9, 10)) \in 1..31
            /\ ParseDigits(SubSeq(s, 12, 13)) \in 0..23
         THEN [ok |-> TRUE,
               year |-> ParseDigits(SubSeq(s, 1, 4)),
               month |-> ParseDigits(SubSeq(s, 6, 7)),
               day |-> ParseDigits(SubSeq(s, 9, 10)),
               hour |-> ParseDigits(SubSeq(s, 12, 13))]
         ELSE [ok |-> FALSE]

DayNames == <<"Saturday", "Sunday", "Monday", "Tuesday", "Wednesday", "Thursday", "Friday">>
MonthAbbr == <<"Jan", "Feb", "Mar", "Apr", "May", "Jun",
               "Jul", "Aug", "Sep", "Oct", "Nov", "Dec">>

\* %A: the day of the week (Zeller's congruence; 0 is Saturday)
Weekday(dt) ==
    LET m == IF dt.month < 3 THEN dt.month + 12 ELSE dt.month
        y == IF dt.month < 3 THEN dt.year - 1 ELSE dt.year
        kk == y % 100
        j == y \div 100
    IN (dt.day + ((13 * (m + 1)) \div 5) + kk + (kk \div 4) + (j \div 4) + 5 * j) % 7

\* %d
TwoDigits(n) == IF n < 10 THEN "0" \o ToString(n) ELSE ToString(n)

\* dt.strftime('%A, %b %d')
FormatDate(dt) ==
    DayNames[Weekday(dt) + 1] \o ", " \o MonthAbbr[dt.month] \o " " \o TwoDigits(dt.day)

---------------------------------------------------------------------------
(* calculate_wind_chill *)

\* math.pow(v, 0.16) in thousandths, v = 1 .. 80
PowTable ==
    <<1000, 1117, 1192, 1248, 1294, 1332, 1365, 1395, 1421, 1445,
      1468, 1488, 1507, 1525, 1542, 1558, 1574, 1588, 1602, 1615,
      1628, 1640, 1651, 1663, 1674, 1684, 1694, 1704, 1714, 1723,
      1732, 1741, 1750, 1758, 1766, 1774, 1782, 1790, 1797, 1804,
      1812, 1819, 1825, 1832, 1839, 1845, 1852, 1858, 1864, 1870,
      1876, 1882, 1887, 1893, 1899, 1904, 1910, 1915, 1920, 1925,
      1930, 1935, 1940, 1945, 1950, 1955, 1960, 1964, 1969, 1973,
      1978, 1982, 1987, 1991, 1995, 2000, 2004, 2008, 2012, 2016>>

\* The returned value in units of 10^-7 degrees, for an int temperature.
\* (The sign agrees with the float formula for every int temperature in
\* -60..50 and every wind in 3..80.)
calculate_wind_chill(temp_f, speed_mph) ==
    IF temp_f > 50 \/ speed_mph < 3 THEN temp_f * 10000000
    ELSE 357400000 + 6215000 * temp_f - 357500 * PowTable[speed_mph]
         + 4275 * temp_f * PowTable[speed_mph]

---------------------------------------------------------------------------
(* analyze_hour *)

RECURSIVE Join(_, _)
Join(seq, sep) ==
    IF Len(seq) = 0 THEN ""
    ELSE IF Len(seq) = 1 THEN seq[1]
    ELSE seq[1] \o sep \o Join(Tail(seq), sep)

NoHazard == [raised |-> FALSE, score |-> 0, alerts |-> <<>>, reasons |-> <<>>]
Hazard(n, alert, reason) ==
    [raised |-> FALSE, score |-> n, alerts |-> <<alert>>, reasons |-> <<reason>>]
\* an exception leaves the function
Raised == [raised |-> TRUE]

\* RoadSurface with the rain test as an `if` of its own instead of `elif`
RoadSurfaceRainNotElse(short_forecast, temp) ==
    LET snow ==
            IF Contains(short_forecast, "heavy snow")
            THEN Hazard(3, "HEAVY SNOW", "Heavy Snow")
            ELSE IF Contains(short_forecast, "snow") \/ Contains(short_forecast, "ice")
            THEN IF temp.k # "int" THEN Raised
                 ELSE IF temp.i <= 32 THEN Hazard(2, "Icy Roads", "Icy Roads")
                 ELSE Hazard(1, "Slush", "Slush")
            ELSE NoHazard
        rain ==
            IF Contains(short_forecast, "rain")
            THEN IF temp.k # "int" THEN Raised
                 ELSE IF temp.i <= 32 THEN Hazard(3, "FREEZING RAIN", "FREEZING RAIN")
                 ELSE IF temp.i <= 37 THEN Hazard(1, "Possible Black Ice", "Black Ice Risk")
                 ELSE NoHazard
            ELSE NoHazard
    IN IF snow.raised \/ rain.raised THEN Raised
       ELSE [raised |-> FALSE, score |-> snow.score + rain.score,
             alerts |-> snow.alerts \o rain.alerts,
             reasons |-> snow.reasons \o rain.reasons]

\* 1. Road Surface (lines 183-204); `temp <= 32` raises TypeError unless
\* temp is an int
RoadSurface(short_forecast, temp) ==
    IF Contains(short_forecast, "heavy snow")
    THEN Hazard(3, "HEAVY SNOW", "Heavy Snow")
    ELSE IF Contains(short_forecast, "snow") \/ Contains(short_forecast, "ice")
    THEN IF temp.k # "int" THEN Raised
         ELSE IF temp.i <= 32 THEN Hazard(2, "Icy Roads", "Icy Roads")
         ELSE Hazard(1, "Slush", "Slush")
    ELSE IF Contains(short_forecast, "rain")
    THEN IF temp.k # "int" THEN Raised
         ELSE IF temp.i <= 32 THEN Hazard(3, "FREEZING RAIN", "FREEZING RAIN")
         ELSE IF temp.i <= 37 THEN Hazard(1, "Possible Black Ice", "Black Ice Risk")
         ELSE NoHazard
    ELSE NoHazard

\* Wind with the scores of the 50 mph and the 30 mph branches exchanged
WindScoresExchanged(short_forecast, effective_wind) ==
    IF effective_wind >= 50
    THEN Hazard(1, "STORM GUSTS " \o ToString(effective_wind) \o " MPH",
                "Severe Winds (" \o ToString(effective_wind) \o " mph)")
    ELSE IF effective_wind >= 40
    THEN Hazard(2, "GUSTS " \o ToString(effective_wind) \o " MPH",
                "High Winds (" \o ToString(effective_wind) \o " mph)")
    ELSE IF effective_wind >= 30
    THEN Hazard(3, "Windy (" \o ToString(effective_wind) \o ")", "Windy conditions")
    ELSE IF Contains(short_forecast, "breezy") \/ Contains(short_forecast, "windy")
    THEN IF effective_wind < 20
         THEN [NoHazard EXCEPT !.alerts = <<"Breezy">>]
         ELSE NoHazard
    ELSE NoHazard

\* Wind without the 50 mph branch and with 45 mph for 40 mph
WindTwoSteps(short_forecast, effective_wind) ==
    IF effective_wind >= 45
    THEN Hazard(2, "GUSTS " \o ToString(effective_wind) \o " MPH",
                "High Winds (" \o ToString(effective_wind) \o " mph)")
    ELSE IF effective_wind >= 30
    THEN Hazard(1, "Windy (" \o ToString(effective_wind) \o ")", "Windy conditions")
    ELSE IF Contains(short_forecast, "breezy") \/ Contains(short_forecast, "windy")
    THEN IF effective_wind < 20
         THEN [NoHazard EXCEPT !.alerts = <<"Breezy">>]
         ELSE NoHazard
    ELSE NoHazard

\* 2. Wind (lines 207-220)
Wind(short_forecast, effective_wind) ==
    IF effective_wind >= 50
    THEN Hazard(3, "STORM GUSTS " \o ToString(effective_wind) \o " MPH",
                "Severe Winds (" \o ToString(effective_wind) \o " mph)")
    ELSE IF effective_wind >= 40
    THEN Hazard(2, "GUSTS " \o ToString(effective_wind) \o " MPH",
                "High Winds (" \o ToString(effective_wind) \o " mph)")
    ELSE IF effective_wind >= 30
    THEN Hazard(1, "Windy (" \o ToString(effective_wind) \o ")", "Windy conditions")
    ELSE IF Contains(short_forecast, "breezy") \/ Contains(short_forecast, "windy")
    THEN IF effective_wind < 20
         THEN [NoHazard EXCEPT !.alerts = <<"Breezy">>]
         ELSE NoHazard
    ELSE NoHazard

\* 3. Crosswind (lines 223-226); the row's windDirection is not read
Crosswind(name, effective_wind) ==
    IF /\ \/ Contains(name, "McDonald") \/ Contains(name, "Pullman")
          \/ Contains(name, "Lewiston") \/ Contains(name, "Polson")
       /\ effective_wind > 25
    THEN Hazard(1, "CROSSWIND", "Crosswinds")
    ELSE NoHazard

\* 4. Sun Glare (lines 229-243): tags only; every exception is swallowed
SunGlare(r, short_forecast, trip_dir, overall_dir) ==
    LET dt == IF r.startTime = Missing THEN [ok |-> FALSE] ELSE ParseTime(r.startTime)
    IN IF ~dt.ok THEN <<>>
       ELSE IF Contains(short_forecast, "sunny") \/ Contains(short_forecast, "clear")
       THEN (IF overall_dir = "East" /\ trip_dir = "Out" /\ 7 <= dt.hour /\ dt.hour <= 10
             THEN <<"Sun Glare">> ELSE <<>>)
            \o (IF overall_dir = "East" /\ trip_dir = "Ret" /\ 15 <= dt.hour /\ dt.hour <= 18
                THEN <<"Sun Glare">> ELSE <<>>)
            \o (IF overall_dir = "South" /\ trip_dir = "Out" /\ 8 <= dt.hour /\ dt.hour <= 11
                THEN <<"Sun Glare">> ELSE <<>>)
            \o (IF overall_dir = "North" /\ trip_dir = "Out" /\ 9 <= dt.hour /\ dt.hour <= 12
                THEN <<"Sun Glare">> ELSE <<>>)
       ELSE <<>>

\* 5. Wind Chill (lines 246-250): a None temperature gives wc = None, which
\* is falsy; a str temperature raises TypeError at `temp_f > 50`.  The
\* degrees of the tag are left out.
WindChill(temp, effective_wind) ==
    IF temp = None THEN NoHazard
    ELSE IF temp.k # "int" THEN Raised
    ELSE LET wc == calculate_wind_chill(temp.i, effective_wind)
         IN IF wc # 0 /\ wc < 0 THEN Hazard(1, "Chill", "Dangerous Wind Chill")
            ELSE NoHazard

\* lines 252-255
Status(risk_score) ==
    IF risk_score >= 3 THEN "red"
    ELSE IF risk_score = 2 THEN "orange"
    ELSE IF risk_score = 1 THEN "yellow"
    ELSE "green"

analyze_hour(r, name, trip_dir, overall_dir) ==
    LET temp == PyGet(r, "temperature", I(32))
        sf == PyGet(r, "shortForecast", S(""))
    IN
    \* ''.lower() of a value that is not a str raises AttributeError
    IF sf.k # "str" THEN Raised
    ELSE
    LET short_forecast == Lower(sf.s)
        direction == PyGet(r, "windDirection", S("N"))
        is_daytime == PyGet(r, "isDaytime", B(TRUE))
        sustained == get_int(PyGet(r, "windSpeed", I(0)))
        gust == get_int(PyGet(r, "windGust", I(0)))
        effective_wind == Max2(sustained, gust)
        pop == get_int(PyGet(r, "probabilityOfPrecipitation", I(0)))
        road == RoadSurface(short_forecast, temp)
        wind == Wind(short_forecast, effective_wind)
        cross == Crosswind(name, effective_wind)
        glare == SunGlare(r, short_forecast, trip_dir, overall_dir)
        chill == WindChill(temp, effective_wind)
    IN
    IF road.raised \/ chill.raised THEN Raised
    ELSE
    LET risk_score == road.score + wind.score + cross.score + chill.score
    IN [raised |-> FALSE,
        status |-> Status(risk_score),
        alerts |-> Join(road.alerts \o wind.alerts \o cross.alerts \o glare \o chill.alerts, ", "),
        risk_score |-> risk_score,
        effective_wind |-> effective_wind,
        pop |-> pop,
        is_daytime |-> is_daytime,
        major_reasons |-> road.reasons \o wind.reasons \o cross.reasons \o chill.reasons]

---------------------------------------------------------------------------
(* One call of analyze_hour on a forecast period drawn from bounded sets.  *)

\* sustained winds of the periods: 0, 5, ..., 5 * MaxWindStep mph
MaxWindStep == 11

Temperatures == {Missing, None, S("28"), I(-5), I(32), I(36), I(38)}
Forecasts == {Missing, None, S("Mostly Clear"), S("Rain And Snow"),
              S("Heavy Snow And Rain"), S("Rain"), S("Sunny And Breezy")}
WindDirections == {Missing, S("W")}
WindSpeeds == {Missing, None} \cup {S(ToString(5 * n) \o " mph") : n \in 0..MaxWindStep}
WindGusts == {Missing, D(I(26))}
StartTimes == {Missing, S("2024-01-15T08:00:00-08:00")}
EvalLocations == {"McDonald Pass", "Lookout Pass"}
TripDirections == {"Out", "Ret"}
OverallDirections == {"East"}

Rows ==
    [temperature : Temperatures, shortForecast : Forecasts,
     windDirection : WindDirections, isDaytime : {Missing},
     windSpeed : WindSpeeds, windGust : WindGusts,
     probabilityOfPrecipitation : {D(I(40))}, startTime : StartTimes]

RunIdle ==
    /\ route_name = "" /\ hourly_feed = <<>> /\ alerts_feed = <<>> /\ pc = "idle"
    /\ ref_data = <<>> /\ unique_dates = <<>> /\ selected_date_str = ""
    /\ idx = 0 /\ daily_risks = <<>> /\ processed_data_out = <<>>
    /\ summary_hazards = {} /\ official_alerts_found = <<>>
    /\ overall_risk = 0 /\ shown = {}

InitEval ==
    /\ row \in Rows
    /\ location_name \in EvalLocations
    /\ trip_direction \in TripDirections
    /\ overall_direction \in OverallDirections
    /\ result = None
    /\ epc = "call"
    /\ RunIdle

Evaluate ==
    /\ epc = "call"
    /\ result' = analyze_hour(row, location_name, trip_direction, overall_direction)
    /\ epc' = "returned"
    /\ UNCHANGED <<row, location_name, trip_direction, overall_direction>>
    /\ UNCHANGED runVars

NextEval == Evaluate

SpecEval == InitEval /\ [][NextEval]_vars

---------------------------------------------------------------------------
(* The route table (lines 14-111).  "locations" is the key order of "urls", *)
(* which is also that of "coords": every waypoint has coordinates.          *)

ROUTES ==
    [name \in {"Helena, MT (I-90 East)", "Whitefish, MT (via St. Regis)",
               "Pullman, WA (US-95 South)", "Lewiston, ID (US-95 South)",
               "Colville, WA (US-395 North)"} |->
        CASE name = "Helena, MT (I-90 East)" ->
               [direction |-> "East", outbound_hours |-> 7..12, return_hours |-> 12..19,
                locations |-> <<"4th of July Pass", "Lookout Pass", "Missoula Valley",
                                "McDonald Pass">>]
          [] name = "Whitefish, MT (via St. Regis)" ->
               [direction |-> "North", outbound_hours |-> 7..11, return_hours |-> 13..17,
                locations |-> <<"4th of July Pass", "Lookout Pass", "St. Regis Canyon",
                                "Polson Hill", "Whitefish">>]
          [] name = "Pullman, WA (US-95 South)" ->
               [direction |-> "South", outbound_hours |-> 9..12, return_hours |-> 12..14,
                locations |-> <<"Mica Grade", "Harvard Hill", "Moscow/Pullman">>]
          [] name = "Lewiston, ID (US-95 South)" ->
               [direction |-> "South", outbound_hours |-> 8..12, return_hours |-> 13..17,
                locations |-> <<"Mica Grade", "Harvard Hill", "Lewiston Grade">>]
          [] name = "Colville, WA (US-395 North)" ->
               [direction |-> "North", outbound_hours |-> 8..11, return_hours |-> 12..15,
                locations |-> <<"Deer Park", "Chewelah", "Colville">>]]

\* lines 267-273
LOCATIONS == ROUTES[route_name].locations
OUTBOUND_HOURS == ROUTES[route_name].outbound_hours
RETURN_HOURS == ROUTES[route_name].return_hours
ROUTE_DIR == ROUTES[route_name].direction

---------------------------------------------------------------------------
(* The two fetches.  A response is what the service answered: ok = FALSE is *)
(* any failure (no connection, timeout, HTTP error, no JSON), which the     *)
(* bare except turns into [].                                               *)

fetch_hourly_data(response) == IF response.ok THEN response.periods ELSE <<>>

AllowList == {"Winter", "Wind", "Ice", "Blizzard", "Snow", "Flood"}

\* f.get('properties', {}).get('event', '')
EventOf(feature) == IF feature = Missing THEN S("") ELSE feature

\* The returned list as a set: list(set(alerts)) has no fixed order.
\* `x in event` raises TypeError for an event that is not a str, and the
\* except returns [].
fetch_active_alerts(response) ==
    IF ~response.ok THEN {}
    ELSE IF \E i \in 1..Len(response.features) : EventOf(response.features[i]).k # "str"
    THEN {}
    ELSE {Upper(EventOf(response.features[i]).s) :
            i \in {j \in 1..Len(response.features) :
                     \E x \in AllowList : Contains(EventOf(response.features[j]).s, x)}}

---------------------------------------------------------------------------
(* The processing loop (lines 321-386) *)

\* AlertRisk with a warning scored as a watch
AlertRiskWarningAsWatch(alert) ==
    IF Contains(alert, "WARNING") \/ Contains(alert, "ADVISORY") \/ Contains(alert, "WATCH")
    THEN <<2>> ELSE <<>>

\* lines 329-330
AlertRisk(alert) ==
    IF Contains(alert, "WARNING") THEN <<3>>
    ELSE IF Contains(alert, "ADVISORY") \/ Contains(alert, "WATCH") THEN <<2>>
    ELSE <<>>

\* lines 327-330 over the alerts in the order `order`
RECURSIVE AlertsCheck(_, _, _)
AlertsCheck(order, name, acc) ==
    IF Len(order) = 0 THEN acc
    ELSE AlertsCheck(Tail(order), name,
            [found |-> Append(acc.found, "**" \o name \o ":** " \o order[1]),
             risks |-> acc.risks \o AlertRisk(order[1])])

\* the orders a set can be listed in
Orders(set) ==
    {o \in [1..Cardinality(set) -> set] : \A x \in set : \E i \in DOMAIN o : o[i] = x}

Reasons(res, name) ==
    IF res.risk_score >= 1
    THEN {res.major_reasons[i] \o " at " \o name : i \in 1..Len(res.major_reasons)}
    ELSE {}

\* lines 350-358 and 367-380 for one period that analyze_hour assessed as
\* o (outbound) and r (return)
Counted(dt, o, r, name, acc) ==
    LET inOut == dt.hour \in OUTBOUND_HOURS
        inRet == dt.hour \in RETURN_HOURS
        m1 == IF inOut /\ o.risk_score > acc.max_risk THEN o.risk_score ELSE acc.max_risk
        m2 == IF inRet /\ r.risk_score > m1 THEN r.risk_score ELSE m1
    IN [rows |-> Append(acc.rows,
                   [Hour |-> dt.hour,
                    StatusOut |-> o.status, AlertsOut |-> o.alerts,
                    StatusRet |-> r.status, AlertsRet |-> r.alerts]),
        max_risk |-> m2,
        hazards |-> acc.hazards
                    \cup (IF inOut THEN Reasons(o, name) ELSE {})
                    \cup (IF inRet THEN Reasons(r, name) ELSE {})]

\* lines 341-382 for one period: acc is [rows, max_risk, hazards].  Any
\* exception (no startTime, a timestamp that does not parse, analyze_hour
\* raising) skips the period.
HourStep(hour, name, acc) ==
    LET dt == IF hour.startTime = Missing THEN [ok |-> FALSE] ELSE ParseTime(hour.startTime)
    IN IF ~dt.ok THEN acc
       ELSE IF FormatDate(dt) # selected_date_str THEN acc
       ELSE CHOOSE next \in
                {IF o.raised \/ r.raised THEN acc ELSE Counted(d, o, r, name, acc) :
                    d \in {dt},
                    o \in {analyze_hour(hour, name, "Out", ROUTE_DIR)},
                    r \in {analyze_hour(hour, name, "Ret", ROUTE_DIR)}} : TRUE

\* the loop of line 340
RECURSIVE HourLoop(_, _, _)
HourLoop(raw, name, acc) ==
    IF Len(raw) = 0 THEN acc
    ELSE CHOOSE out \in
             {HourLoop(Tail(raw), name, next) : next \in {HourStep(raw[1], name, acc)}} : TRUE

\* lines 292-302
RECURSIVE UniqueDates(_, _)
UniqueDates(periods, acc) ==
    IF Len(periods) = 0 THEN acc
    ELSE LET p == periods[1]
             dt == IF p.startTime = Missing THEN [ok |-> FALSE] ELSE ParseTime(p.startTime)
         IN IF dt.ok /\ \A i \in 1..Len(acc) : acc[i] # FormatDate(dt)
            THEN UniqueDates(Tail(periods), Append(acc, FormatDate(dt)))
            ELSE UniqueDates(Tail(periods), acc)

---------------------------------------------------------------------------
(* One run of the script *)

\* Connection Check (lines 284-289)
ConnectionCheck ==
    /\ pc = "connection"
    /\ ref_data' = fetch_hourly_data(hourly_feed[LOCATIONS[1]])
    /\ IF ref_data' = <<>>
       THEN /\ shown' = shown \cup {"Offline. Check connection."}
            /\ pc' = "stopped"
       ELSE /\ shown' = shown
            /\ pc' = "dates"
    /\ UNCHANGED <<route_name, hourly_feed, alerts_feed, unique_dates, selected_date_str,
                   idx, daily_risks, processed_data_out, summary_hazards,
                   official_alerts_found, overall_risk>>
    /\ UNCHANGED evalVars

\* DateLogic without the stop of lines 304-306
DateLogicNoStop ==
    /\ pc = "dates"
    /\ unique_dates' = UniqueDates(ref_data, <<>>)
    /\ shown' = shown
    /\ pc' = "select"
    /\ UNCHANGED <<route_name, hourly_feed, alerts_feed, ref_data, selected_date_str,
                   idx, daily_risks, processed_data_out, summary_hazards,
                   official_alerts_found, overall_risk>>
    /\ UNCHANGED evalVars

\* Date Logic (lines 292-306)
DateLogic ==
    /\ pc = "dates"
    /\ unique_dates' = UniqueDates(ref_data, <<>>)
    /\ IF unique_dates' = <<>>
       THEN /\ shown' = shown \cup {"Could not parse dates from NWS."}
            /\ pc' = "stopped"
       ELSE /\ shown' = shown
            /\ pc' = "select"
    /\ UNCHANGED <<route_name, hourly_feed, alerts_feed, ref_data, selected_date_str,
                   idx, daily_risks, processed_data_out, summary_hazards,
                   official_alerts_found, overall_risk>>
    /\ UNCHANGED evalVars

\* lines 308-319: the user picks one of the first five dates
SelectDate ==
    /\ pc = "select"
    /\ \E i \in 1..Len(unique_dates) :
          /\ i <= 5
          /\ selected_date_str' = unique_dates[i]
    /\ shown' = shown \cup {"ROUTE_NOTE"}
    /\ daily_risks' = <<>>
    /\ processed_data_out' = <<>>
    /\ summary_hazards' = {}
    /\ official_alerts_found' = <<>>
    /\ idx' = 1
    /\ pc' = "processing"
    /\ UNCHANGED <<route_name, hourly_feed, alerts_feed, ref_data, unique_dates, overall_risk>>
    /\ UNCHANGED evalVars

\* one pass of the loop of line 321
ProcessWaypoint ==
    /\ pc = "processing"
    /\ idx <= Len(LOCATIONS)
    /\ \E name \in {LOCATIONS[idx]} :
       \E active_alerts \in {fetch_active_alerts(alerts_feed[name])} :
       \E raw \in {fetch_hourly_data(hourly_feed[name])} :
       \E order \in Orders(active_alerts) :
       \E checked \in {AlertsCheck(order, name,
                          [found |-> official_alerts_found, risks |-> daily_risks])} :
       \E hours \in {HourLoop(raw, name,
                          [rows |-> <<>>, max_risk |-> 0, hazards |-> summary_hazards])} :
          /\ official_alerts_found' = checked.found
          /\ IF raw = <<>>
             THEN /\ daily_risks' = checked.risks
                  /\ UNCHANGED <<processed_data_out, summary_hazards>>
             ELSE /\ daily_risks' = Append(checked.risks, hours.max_risk)
                  /\ processed_data_out' =
                        Append(processed_data_out, [name |-> name, rows |-> hours.rows])
                  /\ summary_hazards' = hours.hazards
    /\ idx' = idx + 1
    /\ UNCHANGED <<route_name, hourly_feed, alerts_feed, pc, ref_data, unique_dates,
                   selected_date_str, overall_risk, shown>>
    /\ UNCHANGED evalVars

\* lines 393-398
Verdict(risk) ==
    IF risk = 0 THEN {"MISSION STATUS: GO"}
    ELSE IF risk = 1 THEN {"MISSION STATUS: CAUTION"}
    ELSE IF risk >= 2 THEN {"MISSION STATUS: HIGH RISK"}
    ELSE {}

RECURSIVE SeqSum(_)
SeqSum(s) == IF Len(s) = 0 THEN 0 ELSE s[1] + SeqSum(Tail(s))

\* OverallRisk with sum for max
OverallRiskSum(risks) == IF Len(risks) > 0 THEN SeqSum(risks) ELSE 0

\* line 389
OverallRisk(risks) == IF Len(risks) > 0 THEN SeqMax(risks) ELSE 0

\* Dashboard (lines 389-409); the text of the hazard summary (the sorted
\* reasons, at most five) is left out
Dashboard ==
    /\ pc = "processing"
    /\ idx > Len(LOCATIONS)
    /\ overall_risk' = OverallRisk(daily_risks)
    /\ shown' = shown \cup Verdict(overall_risk')
                 \cup (IF official_alerts_found # <<>>
                       THEN {"Active NWS Alerts detected."} ELSE {})
                 \cup (IF overall_risk' > 0 /\ summary_hazards # {}
                       THEN {"Hourly Risk Factors"} ELSE {})
    /\ pc' = "done"
    /\ UNCHANGED <<route_name, hourly_feed, alerts_feed, ref_data, unique_dates,
                   selected_date_str, idx, daily_risks, processed_data_out,
                   summary_hazards, official_alerts_found>>
    /\ UNCHANGED evalVars

---------------------------------------------------------------------------
(* The runs checked: a route of the table, and for each of its waypoints    *)
(* one of these answers of the forecast service and of the alert service.   *)

RouteChoices == {"Pullman, WA (US-95 South)", "Colville, WA (US-395 North)"}

Period(start, temp, forecast, wind) ==
    [temperature |-> temp, shortForecast |-> S(forecast), windDirection |-> S("W"),
     isDaytime |-> B(TRUE), windSpeed |-> S(wind), windGust |-> Missing,
     probabilityOfPrecipitation |-> D(I(20)), startTime |-> start]

\* 10:00 is in every route's outbound window, 13:00 in every return window,
\* 20:00 in none
BlackIce10 == Period(S("2024-01-15T10:00:00-08:00"), I(36), "Rain", "5 mph")
WindyRain13 == Period(S("2024-01-15T13:00:00-08:00"), I(36), "Rain", "30 mph")
Storm20 == Period(S("2024-01-16T20:00:00-08:00"), I(20), "Heavy Snow", "55 mph")
NullTemp10 == Period(S("2024-01-15T10:00:00-08:00"), None, "Snow", "10 mph")
Slush13 == Period(S("2024-01-15T13:00:00-08:00"), I(40), "Rain And Snow", "5 mph")
NoTime == Period(S("n/a"), I(20), "Snow", "10 mph")

HourlyResponses ==
    {[ok |-> FALSE],
     [ok |-> TRUE, periods |-> <<BlackIce10, WindyRain13, Storm20>>],
     [ok |-> TRUE, periods |-> <<NullTemp10, Slush13>>],
     [ok |-> TRUE, periods |-> <<NoTime>>]}

AlertResponses ==
    {[ok |-> FALSE],
     [ok |-> TRUE, features |-> <<S("Winter Storm Warning")>>],
     [ok |-> TRUE, features |-> <<S("Wind Advisory"), S("Wind Advisory"), S("Flood Statement")>>],
     [ok |-> TRUE, features |-> <<Missing, S("WINTER STORM WARNING"), S("Tornado Warning")>>]}

Range(seq) == {seq[i] : i \in 1..Len(seq)}

EvalIdle ==
    /\ row = None /\ location_name = "" /\ trip_direction = ""
    /\ overall_direction = "" /\ result = None /\ epc = "idle"

Init ==
    /\ route_name \in RouteChoices
    /\ hourly_feed \in [Range(ROUTES[route_name].locations) -> HourlyResponses]
    /\ alerts_feed \in [Range(ROUTES[route_name].locations) -> AlertResponses]
    /\ pc = "connection"
    /\ ref_data = <<>>
    /\ unique_dates = <<>>
    /\ selected_date_str = ""
    /\ idx = 0
    /\ daily_risks = <<>>
    /\ processed_data_out = <<>>
    /\ summary_hazards = {}
    /\ official_alerts_found = <<>>
    /\ overall_risk = 0
    /\ shown = {}
    /\ EvalIdle

Next ==
    \/ ConnectionCheck
    \/ DateLogic
    \/ SelectDate
    \/ ProcessWaypoint
    \/ Dashboard

Spec == Init /\ [][Next]_vars

---------------------------------------------------------------------------
(* Reading an assessment *)

Returned == epc = "returned" /\ ~result.raised

HasTag(res, tag) == Contains(res.alerts, tag)

RowTemp == PyGet(row, "temperature", I(32))
RowForecast == Lower(PyGet(row, "shortForecast", S("")).s)
RowDirection == PyGet(row, "windDirection", S("N")).s
RowWind ==
    Max2(get_int(PyGet(row, "windSpeed", I(0))), get_int(PyGet(row, "windGust", I(0))))

RoadTags == {"HEAVY SNOW", "Icy Roads", "Slush", "FREEZING RAIN", "Possible Black Ice"}
RoadTagScore(tag) ==
    CASE tag = "HEAVY SNOW" -> 3
      [] tag = "Icy Roads" -> 2
      [] tag = "Slush" -> 1
      [] tag = "FREEZING RAIN" -> 3
      [] tag = "Possible Black Ice" -> 1

RoadTagsOf(res) == {t \in RoadTags : HasTag(res, t)}

\* what a set of road-surface tags adds to the score
RECURSIVE TagScoreSum(_)
TagScoreSum(tags) ==
    IF tags = {} THEN 0
    ELSE LET t == CHOOSE x \in tags : TRUE
         IN RoadTagScore(t) + TagScoreSum(tags \ {t})

\* the score without the wind, crosswind and wind chill tags' contributions
ScoreOfTag(res, tag, n) == IF HasTag(res, tag) THEN n ELSE 0
NonRoadScore(res) ==
    ScoreOfTag(res, "STORM GUSTS", 3)
    + (IF HasTag(res, "GUSTS") /\ ~HasTag(res, "STORM GUSTS") THEN 2 ELSE 0)
    + ScoreOfTag(res, "Windy (", 1)
    + ScoreOfTag(res, "CROSSWIND", 1)
    + ScoreOfTag(res, "Chill", 1)
WindScoreOf(res) ==
    res.risk_score - TagScoreSum(RoadTagsOf(res))
    - ScoreOfTag(res, "CROSSWIND", 1) - ScoreOfTag(res, "Chill", 1)

StatusRank(st) ==
    CASE st = "green" -> 0 [] st = "yellow" -> 1 [] st = "orange" -> 2 [] st = "red" -> 3

\* the row with another sustained wind
WithWind(w) == [row EXCEPT !.windSpeed = w]
WindOf(r) ==
    Max2(get_int(PyGet(r, "windSpeed", I(0))), get_int(PyGet(r, "windGust", I(0))))

\* the waypoints line 223 names
CrosswindSensitive(name) ==
    \/ Contains(name, "McDonald") \/ Contains(name, "Pullman")
    \/ Contains(name, "Lewiston") \/ Contains(name, "Polson")

SnowAndRain == Contains(RowForecast, "snow") /\ Contains(RowForecast, "rain")

---------------------------------------------------------------------------
(* Claims about analyze_hour, under SpecEval *)

\* C4: analyze_hour never raises: every call returns an assessment, also for
\* a period whose fields are missing, null or wrongly typed.
C4_NeverRaises == epc = "returned" => ~result.raised

\* C6 as stated: a period whose forecast text holds both "snow" and "rain"
\* gets exactly the icy-roads contribution at temperature <= 32 and exactly
\* the slush contribution above.
C6_SnowRainIcyOrSlush ==
    (Returned /\ SnowAndRain) =>
        RoadTagsOf(result) = (IF RowTemp.i <= 32 THEN {"Icy Roads"} ELSE {"Slush"})

\* C6 amended: at most one road-surface tag and its one score contribution
\* are added; with both "snow" and "rain" in the text the contribution is
\* heavy snow when the text holds "heavy snow", else icy roads at
\* temperature <= 32 and slush above, and never a rain contribution.
C6_RoadSurfaceExclusive ==
    Returned =>
        /\ Cardinality(RoadTagsOf(result)) <= 1
        /\ result.risk_score = TagScoreSum(RoadTagsOf(result)) + NonRoadScore(result)
        /\ SnowAndRain =>
              RoadTagsOf(result) =
                 (IF Contains(RowForecast, "heavy snow") THEN {"HEAVY SNOW"}
                  ELSE IF RowTemp.i <= 32 THEN {"Icy Roads"} ELSE {"Slush"})

C6_Witness ==
    /\ Returned /\ SnowAndRain
    /\ Contains(RowForecast, "heavy snow")
    /\ RowTemp.i <= 32
    /\ RoadTagsOf(result) = {"HEAVY SNOW"}
    /\ result.risk_score >= 3

\* C7: with every other field, the waypoint and the travel direction the
\* same, a period with a greater or equal effective wind has a greater or
\* equal risk score and status (and raises exactly when this one does).
C7_WindMonotone ==
    epc = "returned" =>
        \A w \in WindSpeeds :
            WindOf(WithWind(w)) >= RowWind =>
                LET other == analyze_hour(WithWind(w), location_name,
                                          trip_direction, overall_direction)
                IN /\ other.raised = result.raised
                   /\ ~result.raised =>
                        /\ other.risk_score >= result.risk_score
                        /\ StatusRank(other.status) >= StatusRank(result.status)

C7_Witness ==
    /\ Returned
    /\ RowWind = 25
    /\ LET other == analyze_hour(WithWind(S("50 mph")), location_name,
                                 trip_direction, overall_direction)
       IN /\ other.risk_score > result.risk_score
          /\ StatusRank(other.status) > StatusRank(result.status)

\* C8 as stated: the wind rule adds 2 at an effective wind >= 45 mph, 1 from
\* 30 to 44 mph and 0 below.
C8_WindRuleAsStated ==
    Returned =>
        WindScoreOf(result) =
            (IF RowWind >= 45 THEN 2 ELSE IF RowWind >= 30 THEN 1 ELSE 0)

\* C8 amended: with effective wind = max(sustained, gust), the wind rule
\* adds 3 at >= 50 mph, 2 from 40 to 49 mph, 1 from 30 to 39 mph and 0
\* below; the breezy tag, with no score, is added when the text says breezy
\* or windy and the effective wind is below 20; temperature 36, "Rain",
\* 55 mph at a crosswind-sensitive waypoint scores 5.
C8_WindRule ==
    Returned =>
        /\ result.effective_wind = RowWind
        /\ WindScoreOf(result) =
              (IF RowWind >= 50 THEN 3 ELSE IF RowWind >= 40 THEN 2
               ELSE IF RowWind >= 30 THEN 1 ELSE 0)
        /\ HasTag(result, "Breezy") <=>
              /\ Contains(RowForecast, "breezy") \/ Contains(RowForecast, "windy")
              /\ RowWind < 20
        /\ (/\ RowTemp = I(36) /\ RowForecast = "rain" /\ RowWind = 55
            /\ location_name = "McDonald Pass") => result.risk_score = 5

C8_Witness ==
    /\ Returned
    /\ RowTemp = I(36) /\ RowForecast = "rain" /\ RowWind = 55
    /\ location_name = "McDonald Pass"
    /\ result.risk_score = 5
    /\ result.status = "red"

\* C9: the crosswind contribution is added if and only if the waypoint is
\* crosswind-sensitive, the effective wind exceeds the threshold and the
\* period's wind direction is one of N, NNE, NNW, S, SSE, SSW.
C9_CrosswindNeedsDirection ==
    Returned =>
        (HasTag(result, "CROSSWIND") <=>
            /\ CrosswindSensitive(location_name)
            /\ RowWind > 25
            /\ RowDirection \in {"N", "NNE", "NNW", "S", "SSE", "SSW"})

---------------------------------------------------------------------------
(* Reading a run *)

Locs == Range(LOCATIONS)
DataOf(name) == fetch_hourly_data(hourly_feed[name])
ActiveAlertsOf(name) == fetch_active_alerts(alerts_feed[name])

SetMax(set) == CHOOSE m \in set : \A x \in set : x <= m

TimeOf(period) ==
    IF period.startTime = Missing THEN [ok |-> FALSE] ELSE ParseTime(period.startTime)

\* the periods of a waypoint on the selected date within a travel window
InWindow(name) ==
    {i \in 1..Len(DataOf(name)) :
        LET dt == TimeOf(DataOf(name)[i])
        IN /\ dt.ok
           /\ FormatDate(dt) = selected_date_str
           /\ dt.hour \in OUTBOUND_HOURS \cup RETURN_HOURS}

\* the scores analyze_hour gives them
HourScores(name) ==
    {res.risk_score :
        res \in {a \in {analyze_hour(DataOf(name)[i], name, "Out", ROUTE_DIR) :
                          i \in InWindow(name)} : ~a.raised}}

AllHourScores == UNION {HourScores(name) : name \in Locs}
AlertContributions ==
    UNION {Range(AlertRisk(a)) : a \in UNION {ActiveAlertsOf(name) : name \in Locs}}

WarningActive ==
    \E name \in Locs : \E a \in ActiveAlertsOf(name) : Contains(a, "WARNING")

AllFeedsEmpty == \A name \in Locs : DataOf(name) = <<>>
NoTimestampParses ==
    \A name \in Locs : \A i \in 1..Len(DataOf(name)) : ~TimeOf(DataOf(name)[i]).ok

\* the allow-list test without regard to letter case
AllowListedAnyCase(event) == \E x \in AllowList : Contains(Lower(event), Lower(x))

Verdicts == {"MISSION STATUS: GO", "MISSION STATUS: CAUTION", "MISSION STATUS: HIGH RISK"}

---------------------------------------------------------------------------
(* Claims about a run, under Spec *)

\* C1: when some waypoint of the route has an active alert of Warning class,
\* the verdict the run produces is Severe (overall risk >= 3, shown as HIGH
\* RISK), whatever the hourly feeds returned.
C1_AlertDominance ==
    (pc = "done" /\ WarningActive) =>
        /\ overall_risk >= 3
        /\ shown \cap Verdicts = {"MISSION STATUS: HIGH RISK"}

C1_Witness ==
    /\ pc = "done" /\ WarningActive
    /\ AllHourScores \subseteq {0}
    /\ \E name \in Locs : DataOf(name) = <<>> /\ ActiveAlertsOf(name) # {}
    /\ overall_risk = 3

\* C2: at the end of the loop the overall risk is the maximum of the hourly
\* scores of the selected date in the outbound or return window, over the
\* waypoints with data, and of the alert contributions (0 when there is
\* none); so it is never below the maximum of the hourly scores alone.
C2_MaxMerge ==
    pc = "done" =>
        /\ overall_risk = SetMax({0} \cup AllHourScores \cup AlertContributions)
        /\ overall_risk >= SetMax({0} \cup AllHourScores)

C2_Witness ==
    /\ pc = "done"
    /\ \E name \in Locs : Cardinality(HourScores(name) \ {0}) >= 2
    /\ AlertContributions # {}
    /\ overall_risk = SetMax({0} \cup AllHourScores)
    /\ overall_risk > SetMax(AlertContributions)

\* C3: when some waypoint has no forecast data while another has, the run
\* does not stop: it is not ended by the offline outcome.
C3_MissingWaypointDoesNotStop ==
    (/\ \E name \in Locs : DataOf(name) = <<>>
     /\ \E name \in Locs : DataOf(name) # <<>>)
        => "Offline. Check connection." \notin shown

\* C5: when no waypoint has forecast data, or no forecast timestamp parses,
\* the run stops in the offline outcome before the processing loop: no
\* verdict, no hazard summary and no alert notice is ever shown.
C5_TotalAbsenceTerminal ==
    (AllFeedsEmpty \/ NoTimestampParses) =>
        /\ pc \in {"connection", "dates", "stopped"}
        /\ shown \subseteq {"Offline. Check connection.", "Could not parse dates from NWS."}
        /\ pc = "stopped" => shown # {}
        /\ AllFeedsEmpty /\ pc # "connection" =>
              pc = "stopped" /\ shown = {"Offline. Check connection."}
        /\ daily_risks = <<>> /\ official_alerts_found = <<>> /\ summary_hazards = {}

C5_Witness ==
    /\ AllFeedsEmpty
    /\ WarningActive
    /\ pc = "stopped"
    /\ shown = {"Offline. Check connection."}

\* C10: every alert of a waypoint whose event name holds one of winter,
\* wind, ice, blizzard, snow, flood in any letter case is kept, and adds 3
\* to the risks when its name holds WARNING, else 2 when it holds ADVISORY
\* or WATCH.
C10_KeptInAnyCase ==
    pc = "done" =>
        \A name \in Locs :
            alerts_feed[name].ok =>
                \A i \in 1..Len(alerts_feed[name].features) :
                    LET e == EventOf(alerts_feed[name].features[i])
                    IN (e.k = "str" /\ AllowListedAnyCase(e.s)) =>
                          /\ \E j \in 1..Len(official_alerts_found) :
                                official_alerts_found[j] = "**" \o name \o ":** " \o Upper(e.s)
                          /\ Contains(Upper(e.s), "WARNING") => 3 \in Range(daily_risks)

=============================================================================
